---- MODULE Spec2Model ----
(***************************************************************************)
(* A model of the container bootstrap of src/app/main.go: one run of       *)
(*   run <image> <command> [arg...]                                        *)
(* from the creation of the scratch directory to the process's exit.       *)
(* The registry, the tar utility and the kernel are the environment: each  *)
(* call into them has every outcome the code distinguishes.                *)
(*                                                                         *)
(* Strings the code takes apart (the image reference, a layer digest) are  *)
(* sequences of one-character strings; other strings are opaque.           *)
(***************************************************************************)
EXTENDS Integers, Sequences, FiniteSets, TLC

\* ------------------------------------------------------------------ bounds
\* Longest image reference handed to parseImage.
MaxImageLen == 4
\* Most layer descriptors a manifest carries.
MaxLayers == 3

\* ------------------------------------------------------- program constants
\* http.StatusOK, the one status getToken/getManifest/pullLayer accept.
StatusOK == 200
\* digest[7:] in pullLayer: the number of leading characters dropped.
DigestPrefixLen == 7
\* The code every os.Exit(1) of a failed step passes.
FailureExit == 1

\* ----------------------------------------------------------------- strings
Latest == <<"l", "a", "t", "e", "s", "t">>
TarGz == <<".", "t", "a", "r", ".", "g", "z">>
Colon == ":"

\* The characters image references are drawn from.
ImageChars == {"a", "b", Colon}

RECURSIVE SeqsUpTo(_, _)
SeqsUpTo(S, n) ==
    IF n = 0 THEN {<<>>}
    ELSE LET shorter == SeqsUpTo(S, n - 1)
         IN  shorter \cup {Append(s, c) : s \in shorter, c \in S}

\* Every string parseImage is given.
ImageStrings == SeqsUpTo(ImageChars, MaxImageLen)

HasColon(s) == \E i \in 1..Len(s) : s[i] = Colon

FirstColon(s) == CHOOSE i \in 1..Len(s) : s[i] = Colon /\ \A j \in 1..(i - 1) : s[j] # Colon

\* strings.Split(s, ":"): the fields between the colons, <<s>> when there is none.
RECURSIVE Split(_)
Split(s) ==
    IF ~HasColon(s) THEN <<s>>
    ELSE LET i == FirstColon(s)
         IN  <<SubSeq(s, 1, i - 1)>> \o Split(SubSeq(s, i + 1, Len(s)))

\* A parseImage that falls back to "latest" for an empty tag as well.
parseImageEmptyTag(image) ==
    LET imageParts == Split(image)
    IN  IF Len(imageParts) = 1 \/ imageParts[2] = <<>> THEN <<imageParts[1], Latest>>
        ELSE <<imageParts[1], imageParts[2]>>

\* parseImage: <<repository, tag>>.
parseImage(image) ==
    LET imageParts == Split(image)
    IN  IF Len(imageParts) = 1 THEN <<imageParts[1], Latest>>
        ELSE <<imageParts[1], imageParts[2]>>

\* ------------------------------------------------------------- environment
\* Files of a layer archive and what they hold.
Paths == {"/a", "/b"}
Contents == {"X", "Y"}
Absent == "absent"

\* A directory tree, and a layer archive: what each path holds, if anything.
EmptyTree == [p \in Paths |-> Absent]

\* Digests the registry's manifests name: algorithm ":" hexdigest.  The
\* hexdigest is the hash of the blob, so two blobs share no tail of it.  The
\* algorithm names are 6, 4 and 8 characters long.
DigestA == <<"s", "h", "a", "2", "5", "6", ":", "0", "a", "1", "f">>
DigestB == <<"s", "h", "a", "2", "5", "6", ":", "9", "2", "c", "4">>
DigestC == <<"s", "h", "a", "1", ":", "5", "b", "e", "7">>
DigestD == <<"s", "h", "a", "3", "-", "2", "5", "6", ":", "d", "3", "8", "2">>

Digests == {DigestA, DigestB, DigestC, DigestD}

\* The archive the registry serves for a digest.
Blob(digest) ==
    CASE digest = DigestA -> [p \in Paths |-> IF p = "/a" THEN "X" ELSE Absent]
      [] digest = DigestB -> [p \in Paths |-> IF p = "/a" THEN "Y" ELSE Absent]
      [] digest = DigestC -> [p \in Paths |-> IF p = "/b" THEN "X" ELSE "Y"]
      [] digest = DigestD -> [p \in Paths |-> IF p = "/b" THEN "Y" ELSE Absent]

\* ManifestResponse.Layers: a list of descriptors, of which the code reads Digest.
LayerLists == UNION {[1..n -> [Digest : Digests]] : n \in 0..MaxLayers}

\* The image references a run is started with.
RunImages == {<<"a">>, <<"a", Colon, "b">>}

\* resp.StatusCode and resp.Status of a response.
Statuses ==
    { [code |-> 200, text |-> "200 OK"],
      [code |-> 204, text |-> "204 No Content"],
      [code |-> 401, text |-> "401 Unauthorized"],
      [code |-> 404, text |-> "404 Not Found"],
      [code |-> 500, text |-> "500 Internal Server Error"] }

\* Errors of httpClient.Get/Do, the 10 second timeout among them.
NetErrors == {"timeout", "connection refused"}
\* Errors of decoding a response body.
DecodeErrors == {"invalid character"}
\* Errors of the file system calls.
FileErrors == {"no space left on device"}
\* Errors of chroot(2) and unshare(2).
SysErrors == {"operation not permitted", "invalid argument"}
\* Errors of starting the command: exec.Error, not exec.ExitError.
StartErrors == {"executable file not found", "permission denied"}
\* Errors of running tar.
TarErrors == {"exit status 2"}
\* Exit codes of a command that terminates normally.
ChildExitCodes == 0..255

\* --------------------------------------------------------------- the state
VARIABLES
    pc,          \* the statement of main the run is at, "exited" after it
    imageName,   \* os.Args[2]
    image,       \* parseImage's repository
    tag,         \* parseImage's tag
    token,       \* getToken's result
    manifest,    \* manifest.Layers
    layerNames,  \* the files pulled so far, in order
    extracted,   \* how many of layerNames the extraction loop has passed
    files,       \* the working directory: file name -> the blob saved in it
    tempDir,     \* "none", "present" or "removed"
    root,        \* what tempDir holds
    isolation,   \* "Unisolated", "FilesystemIsolated" or "ProcessIsolated"
    calls,       \* every call into the environment, in order
    out,         \* what the program printed, in order
    child,       \* "none", or how the command ended
    exitCode     \* the process's exit status once pc = "exited", -1 before

vars == <<pc, imageName, image, tag, token, manifest, layerNames, extracted,
          files, tempDir, root, isolation, calls, out, child, exitCode>>

\* A call into the environment: the repository and the tag, digest or file it
\* names, the status code of the response (0 when there is none), whether the
\* call succeeded, and the error it came back with ("none" when it has none).
Call(op, repo, ref, status, ok, err) ==
    [op |-> op, repo |-> repo, ref |-> ref, status |-> status, ok |-> ok, err |-> err]

\* fmt.Printf / fmt.Println: standard output.
Printed(text, cause) == [stream |-> "stdout", text |-> text, cause |-> cause]

\* The exit status a process that calls os.Exit(code) leaves.
ExitStatus(code) == code % 256

\* os.Exit(code) after printing msgs; deferred calls do not run.
OsExit(code, msgs) ==
    /\ pc' = "exited"
    /\ exitCode' = ExitStatus(code)
    /\ out' = out \o msgs

Init ==
    /\ pc = "mkdirTemp"
    /\ imageName \in RunImages
    /\ image = <<>>
    /\ tag = <<>>
    /\ token = "none"
    /\ manifest = <<>>
    /\ layerNames = <<>>
    /\ extracted = 0
    /\ files = <<>>
    /\ tempDir = "none"
    /\ root = EmptyTree
    /\ isolation = "Unisolated"
    /\ calls = <<>>
    /\ out = <<>>
    /\ child = [kind |-> "none", code |-> -1, cause |-> "none"]
    /\ exitCode = -1

\* os.MkdirTemp and the defer of os.RemoveAll.
MkdirTemp ==
    /\ pc = "mkdirTemp"
    /\ \/ /\ calls' = Append(calls, Call("mkdirTemp", <<>>, <<>>, 0, TRUE, "none"))
          /\ tempDir' = "present"
          /\ pc' = "parseImage"
          /\ UNCHANGED <<out, exitCode>>
       \/ \E e \in FileErrors :
            /\ calls' = Append(calls, Call("mkdirTemp", <<>>, <<>>, 0, FALSE, e))
            /\ OsExit(FailureExit, <<Printed("Error creating temporary directory", e)>>)
            /\ UNCHANGED tempDir
    /\ UNCHANGED <<imageName, image, tag, token, manifest, layerNames, extracted,
                   files, root, isolation, child>>

\* image, tag := parseImage(imageName)
ParseImage ==
    /\ pc = "parseImage"
    /\ image' = parseImage(imageName)[1]
    /\ tag' = parseImage(imageName)[2]
    /\ pc' = "getToken"
    /\ UNCHANGED <<imageName, token, manifest, layerNames, extracted, files, tempDir,
                   root, isolation, calls, out, child, exitCode>>

\* A status check that lets every 2xx and 404 through.
TokenAcceptedLoose(resp) == resp.code \in 200..299 \/ resp.code = 404

\* getToken's status check.
TokenAccepted(resp) == resp.code = StatusOK

\* main's branch for an error of getToken.
OnTokenError(e) == OsExit(FailureExit, <<Printed("Error getting token", e)>>)

\* token, err := getToken("library/" + image)
GetToken ==
    /\ pc = "getToken"
    /\ \/ \E e \in NetErrors :
            /\ calls' = Append(calls, Call("token", image, <<>>, 0, FALSE, e))
            /\ OnTokenError(e)
            /\ UNCHANGED token
       \/ \E resp \in Statuses :
            /\ ~TokenAccepted(resp)
            /\ calls' = Append(calls, Call("token", image, <<>>, resp.code, FALSE, resp.text))
            /\ OnTokenError(resp.text)
            /\ UNCHANGED token
       \/ \E resp \in Statuses, e \in DecodeErrors :
            /\ TokenAccepted(resp)
            /\ calls' = Append(calls, Call("token", image, <<>>, resp.code, FALSE, e))
            /\ OnTokenError(e)
            /\ UNCHANGED token
       \/ \E resp \in Statuses :
            /\ TokenAccepted(resp)
            /\ calls' = Append(calls, Call("token", image, <<>>, resp.code, TRUE, "none"))
            /\ token' = "bearer"
            /\ pc' = "getManifest"
            /\ UNCHANGED <<out, exitCode>>
    /\ UNCHANGED <<imageName, image, tag, manifest, layerNames, extracted, files,
                   tempDir, root, isolation, child>>

\* An extraction loop that stops one layer short.
LoopPcSkipLast(pulled, done, layers) ==
    IF pulled < layers THEN "pullLayers"
    ELSE IF done + 1 < pulled THEN "extractLayers"
    ELSE "isolateFileSystem"

\* Loops that extract each layer as soon as it is pulled.
LoopPcInterleaved(pulled, done, layers) ==
    IF done < pulled THEN "extractLayers"
    ELSE IF pulled < layers THEN "pullLayers"
    ELSE "isolateFileSystem"

\* Where main goes on once `pulled` of `layers` layers are pulled and `done`
\* of them extracted: the two loops over the layers, then the isolation.
LoopPc(pulled, done, layers) ==
    IF pulled < layers THEN "pullLayers"
    ELSE IF done < pulled THEN "extractLayers"
    ELSE "isolateFileSystem"

\* A status check that lets 404 through.
ManifestAcceptedLoose(resp) == resp.code = StatusOK \/ resp.code = 404

\* getManifest's status check.
ManifestAccepted(resp) == resp.code = StatusOK

\* main's branch for an error of getManifest.
OnManifestError(e) == OsExit(FailureExit, <<Printed("Error getting manifest", e)>>)

\* manifest, err := getManifest(token, image, tag)
GetManifest ==
    /\ pc = "getManifest"
    /\ \/ \E e \in NetErrors :
            /\ calls' = Append(calls, Call("manifest", image, tag, 0, FALSE, e))
            /\ manifest' = manifest
            /\ OnManifestError(e)
       \/ \E resp \in Statuses :
            /\ ~ManifestAccepted(resp)
            /\ calls' = Append(calls, Call("manifest", image, tag, resp.code, FALSE, resp.text))
            /\ manifest' = manifest
            /\ OnManifestError(resp.text)
       \/ \E resp \in Statuses, e \in DecodeErrors :
            /\ ManifestAccepted(resp)
            /\ calls' = Append(calls, Call("manifest", image, tag, resp.code, FALSE, e))
            /\ manifest' = manifest
            /\ OnManifestError(e)
       \/ \E resp \in Statuses, layers \in LayerLists :
            /\ ManifestAccepted(resp)
            /\ calls' = Append(calls, Call("manifest", image, tag, resp.code, TRUE, "none"))
            /\ manifest' = layers
            /\ pc' = LoopPc(0, 0, Len(layers))
            /\ UNCHANGED <<out, exitCode>>
    /\ UNCHANGED <<imageName, image, tag, token, layerNames, extracted, files,
                   tempDir, root, isolation, child>>

\* The file pullLayer saves a blob to: digest[7:] + ".tar.gz".
LayerFileName(digest) == SubSeq(digest, DigestPrefixLen + 1, Len(digest)) \o TarGz

\* A pull loop that prints the error and tries the same layer again.
OnPullErrorRetry(text, e) ==
    /\ pc' = "pullLayers"
    /\ out' = out \o <<Printed(text, e), Printed("Error pulling layer", e)>>
    /\ UNCHANGED exitCode

\* main's branch for an error of pullLayer, after pullLayer's own message.
OnPullError(text, e) ==
    OsExit(FailureExit, <<Printed(text, e), Printed("Error pulling layer", e)>>)

\* layerName, err := pullLayer(token, image, manifest.Digest), and the append.
PullLayer ==
    /\ pc = "pullLayers"
    /\ LET digest == manifest[Len(layerNames) + 1].Digest
           request(status, ok, err) ==
               Append(calls, Call("blob", image, digest, status, ok, err))
       IN  \/ \E e \in NetErrors :
                /\ calls' = request(0, FALSE, e)
                /\ OnPullError("Error sending request", e)
                /\ UNCHANGED <<layerNames, files, tempDir>>
           \/ \E resp \in Statuses :
                /\ resp.code # StatusOK
                /\ calls' = request(resp.code, FALSE, resp.text)
                /\ OnPullError("Error getting layer", resp.text)
                /\ UNCHANGED <<layerNames, files, tempDir>>
           \/ \E resp \in Statuses :
                /\ resp.code = StatusOK
                /\ Len(digest) < DigestPrefixLen
                \* digest[7:] panics: the deferred calls run, the runtime
                \* reports the panic on standard error and exits with 2.
                /\ calls' = request(resp.code, FALSE, "slice bounds out of range")
                /\ pc' = "exited"
                /\ exitCode' = 2
                /\ tempDir' = "removed"
                /\ out' = Append(out, [stream |-> "stderr", text |-> "panic",
                                       cause |-> "slice bounds out of range"])
                /\ UNCHANGED <<layerNames, files>>
           \/ \E resp \in Statuses, e \in FileErrors :
                /\ resp.code = StatusOK
                /\ Len(digest) >= DigestPrefixLen
                /\ calls' = request(resp.code, FALSE, e)
                /\ \/ /\ OnPullError("Error creating file", e)
                      /\ UNCHANGED files
                   \/ /\ OnPullError("Error copying file", e)
                      /\ files' = (LayerFileName(digest) :>
                                     [blob |-> digest, complete |-> FALSE]) @@ files
                /\ UNCHANGED <<layerNames, tempDir>>
           \/ \E resp \in Statuses :
                /\ resp.code = StatusOK
                /\ Len(digest) >= DigestPrefixLen
                /\ calls' = request(resp.code, TRUE, "none")
                /\ files' = (LayerFileName(digest) :>
                               [blob |-> digest, complete |-> TRUE]) @@ files
                /\ layerNames' = Append(layerNames, LayerFileName(digest))
                /\ pc' = LoopPc(Len(layerNames'), 0, Len(manifest))
                /\ UNCHANGED <<out, exitCode, tempDir>>
    /\ UNCHANGED <<imageName, image, tag, token, manifest, extracted, root,
                   isolation, child>>

\* An overlay in which a file that is already there is kept.
OverlayKeep(tree, archive) ==
    [p \in Paths |-> IF tree[p] # Absent THEN tree[p] ELSE archive[p]]

\* tar -xzf archive -C tree: every file of the archive replaces the tree's.
Overlay(tree, archive) ==
    [p \in Paths |-> IF archive[p] # Absent THEN archive[p] ELSE tree[p]]

\* What a tar that fails may have unpacked: any part of the archive.
Parts(archive) ==
    {[p \in Paths |-> IF p \in S THEN archive[p] ELSE Absent] : S \in SUBSET Paths}

\* The extraction loop taking the layers last to first.
ExtractSourceReversed(names, done) == names[Len(names) - done]

\* The file the extraction loop passes to extractTar once `done` are through.
ExtractSource(names, done) == names[done + 1]

\* extractTar's error branch without the os.Exit: it returns, the loop goes on.
OnExtractErrorContinue(e) ==
    /\ pc' = LoopPc(Len(layerNames), extracted + 1, Len(manifest))
    /\ extracted' = extracted + 1
    /\ out' = Append(out, Printed("Error while applying layer", e))
    /\ UNCHANGED exitCode

\* extractTar's error branch.
OnExtractError(e) ==
    /\ OsExit(FailureExit, <<Printed("Error while applying layer", e)>>)
    /\ UNCHANGED extracted

\* err = extractTar(layerName, tempDir)
ExtractTar ==
    /\ pc = "extractLayers"
    /\ LET src == ExtractSource(layerNames, extracted)
           archive == Blob(files[src].blob)
       IN  \/ /\ calls' = Append(calls, Call("extract", <<>>, src, 0, TRUE, "none"))
              /\ root' = Overlay(root, archive)
              /\ extracted' = extracted + 1
              /\ pc' = LoopPc(Len(layerNames), extracted + 1, Len(manifest))
              /\ UNCHANGED <<out, exitCode>>
           \/ \E e \in TarErrors, part \in Parts(archive) :
                /\ calls' = Append(calls, Call("extract", <<>>, src, 0, FALSE, e))
                /\ root' = Overlay(root, part)
                /\ OnExtractError(e)
    /\ UNCHANGED <<imageName, image, tag, token, manifest, layerNames, files,
                   tempDir, isolation, child>>

\* main's branch for an error of isolateFileSystem, without the os.Exit.
OnChrootErrorContinue(e) ==
    /\ pc' = "isolateProcess"
    /\ out' = out \o <<Printed("Error chrooting", e),
                       Printed("Error isolating file system", e)>>
    /\ UNCHANGED exitCode

\* isolateFileSystem's and main's branches for an error of syscall.Chroot.
OnChrootError(e) ==
    OsExit(FailureExit, <<Printed("Error chrooting", e),
                          Printed("Error isolating file system", e)>>)

\* err = isolateFileSystem(tempDir)
IsolateFileSystem ==
    /\ pc = "isolateFileSystem"
    /\ \/ /\ calls' = Append(calls, Call("chroot", <<>>, <<>>, 0, TRUE, "none"))
          /\ isolation' = "FilesystemIsolated"
          /\ pc' = "isolateProcess"
          /\ UNCHANGED <<out, exitCode>>
       \/ \E e \in SysErrors :
            /\ calls' = Append(calls, Call("chroot", <<>>, <<>>, 0, FALSE, e))
            /\ OnChrootError(e)
            /\ UNCHANGED isolation
    /\ UNCHANGED <<imageName, image, tag, token, manifest, layerNames, extracted,
                   files, tempDir, root, child>>

\* main's branch for an error of isolateProcess, without the os.Exit.
OnUnshareErrorContinue(e) ==
    /\ pc' = "run"
    /\ out' = Append(out, Printed("Error isolating process", "Error unshareing"))
    /\ UNCHANGED exitCode

\* isolateProcess's and main's branches for an error of syscall.Unshare: the
\* error isolateProcess returns is a fixed text, whatever e is.
OnUnshareError(e) ==
    OsExit(FailureExit, <<Printed("Error isolating process", "Error unshareing")>>)

\* err = isolateProcess()
IsolateProcess ==
    /\ pc = "isolateProcess"
    /\ \/ /\ calls' = Append(calls, Call("unshare", <<>>, <<>>, 0, TRUE, "none"))
          /\ isolation' = "ProcessIsolated"
          /\ pc' = "run"
          /\ UNCHANGED <<out, exitCode>>
       \/ \E e \in SysErrors :
            /\ calls' = Append(calls, Call("unshare", <<>>, <<>>, 0, FALSE, e))
            /\ OnUnshareError(e)
            /\ UNCHANGED isolation
    /\ UNCHANGED <<imageName, image, tag, token, manifest, layerNames, extracted,
                   files, tempDir, root, child>>

\* How cmd.Run() can end: the command did not start, it terminated normally
\* with a code, or a signal ended it (ExitCode() is then -1).
RunOutcomes ==
    {[kind |-> "startfail", code |-> -1, cause |-> e] : e \in StartErrors}
    \cup {[kind |-> "exited", code |-> c, cause |-> "none"] : c \in ChildExitCodes}
    \cup {[kind |-> "signaled", code |-> -1, cause |-> "none"]}

\* An exit code that tells only success from failure.
RunExitCodeFlat(outcome) ==
    IF outcome.kind = "exited" /\ outcome.code = 0 THEN 0 ELSE FailureExit

\* An exit code that lets a command that did not start pass for a success:
\* the message without the os.Exit(1).
RunExitCodeNoStart(outcome) ==
    IF outcome.kind = "startfail" THEN 0 ELSE outcome.code

\* The code main ends with after cmd.Run(): 0 when err is nil and main
\* returns, exitError.ExitCode() for an *exec.ExitError, 1 for any other error.
RunExitCode(outcome) ==
    IF outcome.kind = "startfail" THEN FailureExit ELSE outcome.code

\* Nothing is printed when the command cannot be started.
RunMessagesNone(outcome) == <<>>

\* What main prints after cmd.Run(): the error that is no *exec.ExitError.
RunMessages(outcome) ==
    IF outcome.kind = "startfail" THEN <<Printed("Err", outcome.cause)>> ELSE <<>>

\* cmd.Run() and the end of main.  A main that returns runs the deferred
\* os.RemoveAll(tempDir), which resolves tempDir in the root the process has
\* by then; os.Exit runs no deferred call.
RunCommand ==
    /\ pc = "run"
    /\ \E outcome \in RunOutcomes :
         /\ calls' = Append(calls, Call("start", <<>>, <<>>, 0,
                                        outcome.kind # "startfail", outcome.cause))
         /\ child' = outcome
         /\ pc' = "exited"
         /\ exitCode' = ExitStatus(RunExitCode(outcome))
         /\ out' = out \o RunMessages(outcome)
         /\ tempDir' = IF outcome.kind = "exited" /\ outcome.code = 0
                          /\ isolation = "Unisolated"
                       THEN "removed" ELSE tempDir
    /\ UNCHANGED <<imageName, image, tag, token, manifest, layerNames, extracted,
                   files, root, isolation>>

Next ==
    \/ MkdirTemp
    \/ ParseImage
    \/ GetToken
    \/ GetManifest
    \/ PullLayer
    \/ ExtractTar
    \/ IsolateFileSystem
    \/ IsolateProcess
    \/ RunCommand

Spec == Init /\ [][Next]_vars

\* The runs of parseImage alone: every image reference up to MaxImageLen.
InitParse ==
    /\ pc = "mkdirTemp"
    /\ imageName \in ImageStrings
    /\ image = <<>>
    /\ tag = <<>>
    /\ token = "none"
    /\ manifest = <<>>
    /\ layerNames = <<>>
    /\ extracted = 0
    /\ files = <<>>
    /\ tempDir = "none"
    /\ root = EmptyTree
    /\ isolation = "Unisolated"
    /\ calls = <<>>
    /\ out = <<>>
    /\ child = [kind |-> "none", code |-> -1, cause |-> "none"]
    /\ exitCode = -1

NextParse ==
    \/ MkdirTemp
    \/ ParseImage

SpecParse == InitParse /\ [][NextParse]_vars

\* ------------------------------------------------------------- the claims
Ops(op) == {i \in 1..Len(calls) : calls[i].op = op}

IsExtract(c) == c.op = "extract"

\* The calls of extractTar, in order.
ExtractCalls == SelectSeq(calls, IsExtract)

\* Both loops over the layers are through: main is at, or past, the root change.
Materialized == pc = "isolateFileSystem" \/ Ops("chroot") # {}

\* The run is over with a status other than 0.
ExitedNonZero == pc = "exited" /\ exitCode # 0

\* C1: when every setup step succeeded and the command started and
\* terminated normally with exit code c, the process's exit status is c.
C1_ExitCodeFidelity ==
    (pc = "exited" /\ child.kind = "exited") => exitCode = child.code

C1_Witness ==
    /\ pc = "exited"
    /\ child.kind = "exited"
    /\ child.code = 42
    /\ isolation = "ProcessIsolated"
    /\ Len(manifest) > 0

\* C2: once every layer of a manifest of N descriptors is downloaded and
\* extracted, extractTar has been called exactly N times, the k-th call on
\* the file of the k-th descriptor, holding the k-th descriptor's blob.
C2_ExtractionInManifestOrder ==
    Materialized =>
        /\ Len(ExtractCalls) = Len(manifest)
        /\ \A k \in 1..Len(manifest) :
             /\ ExtractCalls[k].ref = LayerFileName(manifest[k].Digest)
             /\ files[ExtractCalls[k].ref].blob = manifest[k].Digest

C2_Witness ==
    /\ Materialized
    /\ Len(manifest) = 3
    /\ manifest[1].Digest # manifest[2].Digest
    /\ manifest[2].Digest # manifest[3].Digest
    /\ manifest[1].Digest # manifest[3].Digest

\* C3: a failed extraction is the last call of the run: no later layer is
\* extracted, no isolation step or command start follows, and the run is over
\* with a non-zero status.
C3_ExtractFailureStops ==
    \A i \in Ops("extract") :
        ~calls[i].ok => i = Len(calls) /\ ExitedNonZero

C3_Witness ==
    \E i \in Ops("extract") :
        /\ ~calls[i].ok
        /\ Len(ExtractCalls) < Len(manifest)

\* C4: the command is started only after a successful namespace unshare, which
\* happens only after a successful root change.
C4_IsolationOrder ==
    /\ \A k \in Ops("unshare") :
         \E j \in Ops("chroot") : j < k /\ calls[j].ok
    /\ \A i \in Ops("start") :
         /\ isolation = "ProcessIsolated"
         /\ \E j \in Ops("chroot"), k \in Ops("unshare") :
              j < k /\ k < i /\ calls[j].ok /\ calls[k].ok

C4_Witness ==
    /\ Ops("start") # {}
    /\ child.kind = "exited"

\* C5: a token response whose status is not 2xx is followed by no manifest
\* and no blob request, and the run is over with a non-zero status.
C5_TokenFailureStops ==
    \A i \in Ops("token") :
        (calls[i].status # 0 /\ calls[i].status \notin 200..299) =>
            /\ Ops("manifest") = {}
            /\ Ops("blob") = {}
            /\ ExitedNonZero

C5_Witness == \E i \in Ops("token") : calls[i].status = 401

\* C6: a manifest response that is not found, or has any other status that is
\* not 2xx, is followed by no blob request, and the run is over with a
\* non-zero status.
C6_ManifestFailureStops ==
    \A i \in Ops("manifest") :
        (calls[i].status # 0 /\ calls[i].status \notin 200..299) =>
            /\ Ops("blob") = {}
            /\ ExitedNonZero

C6_Witness == \E i \in Ops("manifest") : calls[i].status = 404

\* The calls of the setup steps: every call but the start of the command.
SetupCalls == {i \in 1..Len(calls) : calls[i].op # "start"}

\* C7: a failed setup step ends the run with exit status 1, and the command
\* is not started.
C7_SetupFailureExitsOne ==
    \A i \in SetupCalls :
        ~calls[i].ok =>
            /\ pc = "exited"
            /\ exitCode = 1
            /\ Ops("start") = {}
            /\ child.kind = "none"

C7_Witness ==
    /\ \E i \in Ops("unshare") : ~calls[i].ok
    /\ Len(manifest) > 0

\* Strings without a colon: the names and the tags of name[:tag].
ColonFree == SeqsUpTo(ImageChars \ {Colon}, MaxImageLen)

C9_StartFailure ==
    (pc = "exited" /\ child.kind = "startfail") =>
        /\ exitCode = 1
        /\ \E i \in 1..Len(out) : out[i].text = "Err" /\ out[i].cause = child.cause

C9_Witness ==
    /\ pc = "exited"
    /\ child.kind = "startfail"
    /\ child.cause = "executable file not found"
    /\ isolation = "ProcessIsolated"

\* The layers of the manifest whose archive holds path p.
Writers(p) == {k \in 1..Len(manifest) : Blob(manifest[k].Digest)[p] # Absent}

Last(S) == CHOOSE k \in S : \A j \in S : j <= k

\* C10: once every layer is extracted, each path some layer writes holds
\* what the last layer, in manifest order, that writes it put there.
C10_LastLayerWins ==
    Materialized =>
        \A p \in Paths :
            Writers(p) # {} => root[p] = Blob(manifest[Last(Writers(p))].Digest)[p]

C10_Witness ==
    /\ Materialized
    /\ Len(manifest) = 2
    /\ manifest[1].Digest = DigestA
    /\ manifest[2].Digest = DigestB
    /\ root["/a"] = "Y"

\* C11: once the process has exited, the scratch directory it created is
\* removed, whichever way the run ended.
C11_TempDirRemovedOnExit ==
    (pc = "exited" /\ tempDir # "none") => tempDir = "removed"

\* The calls of kind op that succeeded before call i.
OkBefore(op, i) == {j \in Ops(op) : j < i /\ calls[j].ok}

\* C12: the root change and the namespace unshare are each performed at most
\* once, and exactly once, successfully, in a run that starts the command;
\* each comes after the download and the extraction of every layer of the
\* manifest, and no download or extraction comes after the root change.
C12_IsolationOnceAfterLayers ==
    /\ Cardinality(Ops("chroot")) <= 1
    /\ Cardinality(Ops("unshare")) <= 1
    /\ Ops("start") # {} =>
         /\ \E j \in Ops("chroot") : calls[j].ok
         /\ \E k \in Ops("unshare") : calls[k].ok
    /\ \A i \in Ops("chroot") \cup Ops("unshare") :
         /\ Cardinality(OkBefore("blob", i)) = Len(manifest)
         /\ Cardinality(OkBefore("extract", i)) = Len(manifest)
    /\ \A i \in Ops("chroot"), j \in Ops("blob") \cup Ops("extract") : j < i

C12_Witness ==
    /\ Ops("start") # {}
    /\ Len(manifest) = 2
    /\ Cardinality(Ops("chroot")) = 1
    /\ Cardinality(Ops("unshare")) = 1

\* C13: a failed setup step is reported on standard error with its cause
\* before the process exits non-zero, and nothing of it goes to standard
\* output.
C13_ErrorsOnStderr ==
    \A i \in SetupCalls :
        ~calls[i].ok =>
            /\ ExitedNonZero
            /\ \E m \in 1..Len(out) :
                 out[m].stream = "stderr" /\ out[m].cause = calls[i].err
            /\ \A m \in 1..Len(out) : out[m].stream # "stdout"

\* C14: a failed namespace unshare ends the run non-zero, and the error the
\* program reports carries the cause the operating system returned.
C14_UnshareCauseReported ==
    \A i \in Ops("unshare") :
        ~calls[i].ok =>
            /\ ExitedNonZero
            /\ \E m \in 1..Len(out) : out[m].cause = calls[i].err

\* The hexdigest of algorithm:hexdigest: what follows the colon.
HexDigest(digest) == SubSeq(digest, FirstColon(digest) + 1, Len(digest))

\* C15: the file a blob is saved to is named by the hexdigest of its digest,
\* plus the archive suffix, whatever the length of the algorithm name.
C15_FileNamedByHexDigest ==
    \A f \in DOMAIN files : f = HexDigest(files[f].blob) \o TarGz

\* C16: once the process has exited, no blob file downloaded during the run
\* exists any more.
C16_BlobFilesGoneOnExit ==
    pc = "exited" => DOMAIN files = {}

\* The network requests of the run.
Requests == Ops("token") \cup Ops("manifest") \cup Ops("blob")

IsBlob(c) == c.op = "blob"

\* The blob requests, in order.
BlobCalls == SelectSeq(calls, IsBlob)

\* C17: the token request and the manifest request are each issued at most
\* once, the k-th blob request is the one request for the k-th layer
\* descriptor, and a request that fails, by the timeout or otherwise, is the
\* last request of the run, which is over.
C17_NoRetry ==
    /\ Cardinality(Ops("token")) <= 1
    /\ Cardinality(Ops("manifest")) <= 1
    /\ Len(BlobCalls) <= Len(manifest)
    /\ \A k \in 1..Len(BlobCalls) : BlobCalls[k].ref = manifest[k].Digest
    /\ \A i \in Requests :
         ~calls[i].ok =>
             /\ pc = "exited"
             /\ \A j \in Requests : j <= i

C17_Witness ==
    /\ Len(BlobCalls) = 2
    /\ ~BlobCalls[2].ok
    /\ BlobCalls[2].err = "timeout"
    /\ pc = "exited"

\* C18: an extraction comes only after the successful download of all N
\* layers; when a download fails, nothing has been extracted, the scratch
\* directory is empty and the run is over.
C18_PullAllBeforeExtract ==
    /\ \A i \in Ops("extract") :
         Cardinality(OkBefore("blob", i)) = Len(manifest)
    /\ \A i \in Ops("blob") :
         ~calls[i].ok =>
             /\ Ops("extract") = {}
             /\ root = EmptyTree
             /\ pc = "exited"

C18_Witness ==
    /\ Len(manifest) = 3
    /\ Len(BlobCalls) = 2
    /\ BlobCalls[1].ok
    /\ ~BlobCalls[2].ok
    /\ root = EmptyTree

\* C19: the process exits with status 0 only when every setup step
\* succeeded, the command was started and the command exited with code 0; a
\* command that did not start, exited non-zero or was ended by a signal
\* leaves a non-zero status.
C19_ZeroOnlyOnSuccess ==
    (pc = "exited" /\ exitCode = 0) =>
        /\ \A i \in SetupCalls : calls[i].ok
        /\ isolation = "ProcessIsolated"
        /\ \E i \in Ops("start") : calls[i].ok
        /\ child.kind = "exited"
        /\ child.code = 0

C19_Witness ==
    /\ pc = "exited"
    /\ exitCode = 0
    /\ child.kind = "exited"
    /\ Len(manifest) = 1

====
